---------------------------- MODULE Spec2Model ----------------------------
(***************************************************************************)
(* Model of the inverted-index builder (src/index_constructor.py) and of   *)
(* the query engine (src/basic_query.py), as started by src/main.py.       *)
(*                                                                         *)
(* The builder talks to MongoDB through Motor (AsyncIOMotorClient,         *)
(* index_constructor.py:32).  Every Motor collection method submits the    *)
(* PyMongo call to a thread pool and returns an asyncio Future at once;    *)
(* the result is obtained only by awaiting that Future.  The query engine  *)
(* uses the synchronous PyMongo client (basic_query.py:12), whose methods  *)
(* return their results directly.                                          *)
(*                                                                         *)
(* Numbers are fixed point: tf, idf and tf_idf in thousandths, html_weight *)
(* in tenths, scores in millionths.                                        *)
(***************************************************************************)
EXTENDS Integers, Sequences, FiniteSets, TLC

\* ------------------------------------------------------------------ bounds
\* Number of documents in the manifest (bookkeeping.json) of the build.
MaxDocs == 5

\* ------------------------------------------------------- program constants
\* asyncio.Semaphore(3), index_constructor.py:45
SemaphoreLimit == 3
\* default weight of a tag not in htmlWeights, in tenths (0.1), index_constructor.py:69
DefaultWeight == 1

Manifest == 1..MaxDocs

\* ------------------------------------------------------------- tokenizing
\* self.stopWords, index_constructor.py:36 (stop_words.txt)
StopWords == {"the", "a", "an"}

\* str.lower(), index_constructor.py:72 and basic_query.py:60
Lower(w) ==
  CASE w = "Fox" -> "fox"
    [] w = "The" -> "the"
    [] OTHER -> w

\* len(l), index_constructor.py:72
StrLen(w) ==
  CASE w \in {"a"} -> 1
    [] w \in {"ox", "an", "42"} -> 2
    [] w \in {"Fox", "fox", "dog", "the", "The"} -> 3
    [] w \in {"2024", "dogs"} -> 4
    [] w \in {"foxes", "jumps"} -> 5
    [] OTHER -> 6

\* str.isnumeric(), index_constructor.py:73 and basic_query.py:61
IsNumeric(w) == w \in {"42", "2024"}

\* EnglishStemmer.stem, index_constructor.py:74 and basic_query.py:62
Stem(w) ==
  CASE w = "foxes" -> "fox"
    [] w = "dogs" -> "dog"
    [] w = "jumps" -> "jump"
    [] w = "sleeps" -> "sleep"
    [] OTHER -> w

\* self.htmlWeights.get(tag_name, 0.1), in tenths, index_constructor.py:37,69
HtmlWeight(tag_name) ==
  CASE tag_name = "title" -> 6
    [] tag_name = "h1" -> 5
    [] tag_name = "h2" -> 4
    [] tag_name = "h3" -> 3
    [] tag_name = "h4" -> 2
    [] OTHER -> DefaultWeight

\* The filter of the list comprehension at index_constructor.py:72:
\* (not l.lower() in self.stopWords) and len(l) > 2
KeepToken(w) == Lower(w) \notin StopWords /\ StrLen(w) > 2

\* One word of one tag folded into the lemmas dict (index_constructor.py:72-76).
\* lemmas is a sequence of [lemma, freq, html_weight] in insertion order, as a
\* Python dict keeps its keys.
AddLemma_unmerged(lemmas, w, weight) ==
  IF ~KeepToken(w) \/ IsNumeric(Lower(w))
  THEN lemmas
  ELSE Append(lemmas, [lemma |-> Stem(Lower(w)), freq |-> 1, html_weight |-> weight])
AddLemma(lemmas, w, weight) ==
  IF ~KeepToken(w) \/ IsNumeric(Lower(w))
  THEN lemmas
  ELSE LET l == Stem(Lower(w))
           at == {k \in 1..Len(lemmas) : lemmas[k].lemma = l}
       IN IF at = {}
          THEN Append(lemmas, [lemma |-> l, freq |-> 1, html_weight |-> weight])
          ELSE [k \in 1..Len(lemmas) |->
                  IF k \in at
                  THEN [lemmas[k] EXCEPT !.freq = @ + 1, !.html_weight = @ + weight]
                  ELSE lemmas[k]]

RECURSIVE AddWords(_, _, _)
\* The inner loop over the words of one tag (index_constructor.py:72-76).
AddWords(lemmas, words, weight) ==
  IF words = <<>> THEN lemmas
  ELSE AddWords(AddLemma(lemmas, Head(words), weight), Tail(words), weight)

RECURSIVE process_document(_)
\* InvertedIndex.process_document: soup is the sequence of tags find_all(True)
\* yields, each [name, text], text being the words of the tag after re.sub and
\* word_tokenize.
process_document(soup) ==
  IF soup = <<>> THEN <<>>
  ELSE LET front == process_document(SubSeq(soup, 1, Len(soup) - 1))
           tag == soup[Len(soup)]
       IN AddWords(front, tag.text, HtmlWeight(tag.name))

\* The documents of the corpus: what BeautifulSoup yields for manifest entry i.
\* Document 2 yields no lemma; the documents after the fifth hold "fox".
DocContent(i) ==
  CASE i = 1 -> << [name |-> "title", text |-> <<"Fox">>],
                  [name |-> "p", text |-> <<"fox", "jumps">>] >>
    [] i = 2 -> << [name |-> "p", text |-> <<"The", "ox", "2024", "a">>] >>
    [] i = 3 -> << [name |-> "p", text |-> <<"dogs", "the">>] >>
    [] i = 4 -> << [name |-> "h1", text |-> <<"foxes">>] >>
    [] i = 5 -> << [name |-> "h2", text |-> <<"dog", "42">>] >>
    [] OTHER -> << [name |-> "h4", text |-> <<"foxes", "an">>] >>

\* -------------------------------------------------------------- the store
\* The collection: a function from the lemmas that have a row to the row's
\* docs list.  A posting is [location, tf, html_weight] and, once backfilled,
\* tf_idf.

\* collection.count_documents({}) on the server
count_documents(s) == Cardinality(DOMAIN s)

\* {'$push': {'docs': doc_entry}} with upsert = True, index_constructor.py:93
Upsert(s, lemma, doc_entry) ==
  IF lemma \in DOMAIN s
  THEN [s EXCEPT ![lemma] = Append(@, doc_entry)]
  ELSE [l \in DOMAIN s \cup {lemma} |-> IF l = lemma THEN <<doc_entry>> ELSE s[l]]

\* The updates list add_to_index builds (index_constructor.py:83-93);
\* tf = freq / total_words in thousandths.
Updates(lemmas, doc_id) ==
  [k \in 1..Len(lemmas) |->
     [lemma |-> lemmas[k].lemma,
      doc_entry |-> [location |-> doc_id,
                     tf |-> (lemmas[k].freq * 1000) \div Len(lemmas),
                     html_weight |-> lemmas[k].html_weight]]]

RECURSIVE ApplyUpdates(_, _, _)
\* The first n operations of an ordered bulk_write applied by the server.
ApplyUpdates(s, updates, n) ==
  IF n = 0 THEN s
  ELSE LET u == updates[n]
       IN Upsert(ApplyUpdates(s, updates, n - 1), u.lemma, u.doc_entry)

DocUpdates(i) == Updates(process_document(DocContent(i)), i)


\* ------------------------------------------------------- the query engine
\* math.log in thousandths: LnTable[k] = 1000 * ln(k), rounded.
LnTable == << 0, 693, 1099, 1386, 1609, 1792, 1946, 2079, 2197, 2303,
              2398, 2485, 2565, 2639, 2708, 2773, 2833, 2890, 2944, 2996,
              3045, 3091, 3135, 3178, 3219, 3258, 3296, 3332, 3367, 3401,
              3434, 3466, 3497, 3526, 3555, 3584, 3611, 3638, 3664, 3689 >>

\* log(total_docs / len(postings_list)), basic_query.py:77,107
Log(n, d) == LnTable[n] - LnTable[d]

\* len(collection.distinct("docs.location")), basic_query.py:18
distinct_locations(s) ==
  UNION {{s[l][k].location : k \in 1..Len(s[l])} : l \in DOMAIN s}

\* One word of the query folded into the lemmas dict (basic_query.py:60-63):
\* numeric tokens are skipped, every other token is stemmed and counted.
AddQueryLemma_filtered(lemmas, w) ==
  IF IsNumeric(Lower(w)) \/ ~KeepToken(w)
  THEN lemmas
  ELSE LET l == Stem(Lower(w))
           at == {k \in 1..Len(lemmas) : lemmas[k].lemma = l}
       IN IF at = {}
          THEN Append(lemmas, [lemma |-> l, count |-> 1])
          ELSE [k \in 1..Len(lemmas) |->
                  IF k \in at THEN [lemmas[k] EXCEPT !.count = @ + 1]
                  ELSE lemmas[k]]
AddQueryLemma(lemmas, w) ==
  IF IsNumeric(Lower(w))
  THEN lemmas
  ELSE LET l == Stem(Lower(w))
           at == {k \in 1..Len(lemmas) : lemmas[k].lemma = l}
       IN IF at = {}
          THEN Append(lemmas, [lemma |-> l, count |-> 1])
          ELSE [k \in 1..Len(lemmas) |->
                  IF k \in at THEN [lemmas[k] EXCEPT !.count = @ + 1]
                  ELSE lemmas[k]]

RECURSIVE tokenize_query(_)
\* BasicQuery.tokenize_query: query is the sequence of words left by re.sub
\* and word_tokenize; the result keeps the dict's insertion order.
tokenize_query(query) ==
  IF query = <<>> THEN <<>>
  ELSE AddQueryLemma(tokenize_query(SubSeq(query, 1, Len(query) - 1)),
                     query[Len(query)])

\* Python's None
None == [none |-> TRUE]

\* collection.find_one({'lemma': lemma}): None when no row has the lemma.
find_one(s, lemma) ==
  IF lemma \in DOMAIN s THEN [lemma |-> lemma, docs |-> s[lemma]] ELSE None

\* The loops of process_query over the lemmas of the query
\* (basic_query.py:72-78).  Subscripting the None that find_one returns for
\* an absent lemma raises TypeError (line 76).  Otherwise
\* query_tfidf[lemma] = tf * log(total_docs / len(postings)), or 0 for an
\* empty postings list; in thousandths.
QueryWeights(s, total_docs, lemmas) ==
  IF \E k \in 1..Len(lemmas) : find_one(s, lemmas[k].lemma) = None
  THEN [error |-> "TypeError", query_tfidf |-> <<>>]
  ELSE [error |-> "none",
        query_tfidf |->
          [k \in 1..Len(lemmas) |->
             [lemma |-> lemmas[k].lemma,
              weight |->
                (((lemmas[k].count * 1000) \div Len(lemmas)) *
                 (IF find_one(s, lemmas[k].lemma).docs # <<>>
                  THEN Log(total_docs, Len(find_one(s, lemmas[k].lemma).docs))
                  ELSE 0)) \div 1000]]]

\* BasicQuery.process_query (basic_query.py:68-82).
process_query(s, total_docs, query) ==
  QueryWeights(s, total_docs, tokenize_query(query))

\* The tf_idf basic_query.py:107 takes for a posting: doc.get('tf_idf', d)
\* evaluates its default d = tf / log(total_docs / len(postings_list)) before
\* the lookup, so a zero logarithm raises ZeroDivisionError whether or not the
\* posting carries tf_idf.
posting_tf_idf(doc, total_docs, df) ==
  IF Log(total_docs, df) = 0
  THEN [error |-> "ZeroDivisionError", value |-> 0]
  ELSE [error |-> "none",
        value |-> IF "tf_idf" \in DOMAIN doc
                  THEN doc.tf_idf
                  ELSE (doc.tf * 1000) \div Log(total_docs, df)]

\* All (query lemma index, posting index) pairs in the order the nested loops
\* of basic_query.py:102-105 visit them.
RECURSIVE Visits(_, _, _)
Visits(s, query_tfidf, k) ==
  IF k = 0 THEN <<>>
  ELSE Visits(s, query_tfidf, k - 1) \o
       [j \in 1..Len(s[query_tfidf[k].lemma]) |-> <<k, j>>]

\* The location of the posting a visit reads.
VisitLocation(s, query_tfidf, v) == s[query_tfidf[v[1]].lemma][v[2]].location

\* The keys of the scores dict in insertion order: each location in the order
\* of its first visit.
FirstSeen(s, query_tfidf, visits) ==
  LET first == {i \in 1..Len(visits) :
                  \A j \in 1..(i - 1) :
                     VisitLocation(s, query_tfidf, visits[j]) #
                     VisitLocation(s, query_tfidf, visits[i])}
  IN [k \in 1..Cardinality(first) |->
        VisitLocation(s, query_tfidf,
           visits[CHOOSE i \in first : Cardinality({j \in first : j < i}) = k - 1])]

RECURSIVE SumRange(_, _, _)
\* The sum of xs[lo..hi].
SumRange(xs, lo, hi) ==
  IF lo > hi THEN 0
  ELSE IF lo = hi THEN xs[lo]
  ELSE LET mid == (lo + hi) \div 2
       IN SumRange(xs, lo, mid) + SumRange(xs, mid + 1, hi)

SumSeq(xs) == SumRange(xs, 1, Len(xs))

\* scores[doc_id] after both loops (basic_query.py:105-119), in millionths:
\* html_weight / 10000 for every posting of the document that is visited, plus
\* query_tfidf[lemma] * tf_idf for every lemma of doc_vectors[doc_id], where
\* the last visited posting of the document under that lemma decides tf_idf.
Score(s, total_docs, query_tfidf, visits, doc_id) ==
  LET mine == {i \in 1..Len(visits) :
                 s[query_tfidf[visits[i][1]].lemma][visits[i][2]].location = doc_id}
      post(i) == s[query_tfidf[visits[i][1]].lemma][visits[i][2]]
      last == {i \in mine : \A j \in mine : visits[j][1] = visits[i][1] => j <= i}
      boost == [i \in 1..Len(visits) |->
                  IF i \in mine THEN post(i).html_weight * 10 ELSE 0]
      cosine == [i \in 1..Len(visits) |->
                  IF i \in last
                  THEN query_tfidf[visits[i][1]].weight *
                       posting_tf_idf(post(i), total_docs,
                                      Len(s[query_tfidf[visits[i][1]].lemma])).value
                  ELSE 0]
  IN SumSeq(boost) + SumSeq(cosine)

\* sorted(scores.items(), key = score, reverse = True): stable, so equal
\* scores keep their insertion order (basic_query.py:121).
SortedScores(items) ==
  LET n == Len(items)
      rank(i) == Cardinality({j \in 1..n : items[j].score > items[i].score})
                 + Cardinality({j \in 1..(i - 1) : items[j].score = items[i].score})
                 + 1
  IN [r \in 1..n |-> items[CHOOSE i \in 1..n : rank(i) = r]]

\* sorted_scores[:20], basic_query.py:122
TopN == 20
Slice(xs) == SubSeq(xs, 1, IF Len(xs) < TopN THEN Len(xs) ELSE TopN)

\* What calculate_cosine_similarity gives when an exception leaves it.
Raised(error) ==
  [error |-> error, candidates |-> 0, sorted_scores |-> <<>>, top_docs |-> <<>>]

\* The return of calculate_cosine_similarity (basic_query.py:121-124).
TopDocs(sorted_scores) ==
  [error |-> "none", candidates |-> Len(sorted_scores),
   sorted_scores |-> sorted_scores,
   top_docs |-> [i \in 1..Len(Slice(sorted_scores)) |-> sorted_scores[i].doc_id]]

\* scores.items() after the loops (basic_query.py:105-119).
ScoreItems(s, total_docs, query_tfidf, visits, keys) ==
  [i \in 1..Len(keys) |->
     [doc_id |-> keys[i],
      score |-> Score(s, total_docs, query_tfidf, visits, keys[i])]]

\* The scan of the postings lists and the ranking (basic_query.py:102-124).
Rank(s, total_docs, query_tfidf, visits) ==
  IF \E i \in 1..Len(visits) :
        posting_tf_idf(s[query_tfidf[visits[i][1]].lemma][visits[i][2]], total_docs,
                       Len(s[query_tfidf[visits[i][1]].lemma])).error # "none"
  THEN Raised("ZeroDivisionError")
  ELSE TopDocs(SortedScores(ScoreItems(s, total_docs, query_tfidf, visits,
                                       FirstSeen(s, query_tfidf, visits))))

\* calculate_cosine_similarity once process_query has returned or raised.
Scan(s, total_docs, pq) ==
  IF pq.error # "none" THEN Raised(pq.error)
  ELSE Rank(s, total_docs, pq.query_tfidf,
            Visits(s, pq.query_tfidf, Len(pq.query_tfidf)))

\* BasicQuery.calculate_cosine_similarity (basic_query.py:96-124).
calculate_cosine_similarity(s, total_docs, query) ==
  Scan(s, total_docs, process_query(s, total_docs, query))

\* A url of bookkeeping.json is [protocol, rest], protocol "" when the url
\* has none.
\* BasicQuery.get_url (basic_query.py:40-51).  A missing file or invalid JSON
\* gives None; a doc_id that is no key of the mapping raises KeyError, which
\* get_url does not catch.
get_url(bk, doc_id) ==
  IF bk.kind # "ok" THEN [error |-> "none", url |-> None]
  ELSE IF doc_id \notin DOMAIN bk.data THEN [error |-> "KeyError", url |-> None]
  ELSE [error |-> "none", url |-> bk.data[doc_id]]

\* One url of BasicQuery.format_urls (basic_query.py:25-28).
format_url(url) ==
  IF url.protocol \in {"http://", "https://"} THEN url
  ELSE [url EXCEPT !.protocol = "http://"]

\* BasicQuery.format_urls (basic_query.py:22-29): a None among the urls
\* raises AttributeError (None has no startswith).
format_urls(urls) ==
  IF \E i \in 1..Len(urls) : urls[i] = None
  THEN [error |-> "AttributeError", urls |-> <<>>]
  ELSE [error |-> "none", urls |-> [i \in 1..Len(urls) |-> format_url(urls[i])]]

\* The list comprehension of basic_query.py:35 handed to format_urls
\* (line 36), unless a get_url call raised.
UrlsOf(got) ==
  IF \E i \in 1..Len(got) : got[i].error # "none"
  THEN [error |-> "KeyError", urls |-> <<>>]
  ELSE format_urls([i \in 1..Len(got) |-> got[i].url])

\* [self.get_url(doc_id) for doc_id in results], basic_query.py:35
get_urls(bk, results) == [i \in 1..Len(results) |-> get_url(bk, results[i])]

\* What query_index gives for a ranking and the urls resolved for it; an
\* exception of calculate_cosine_similarity leaves query_index.
Answer(query, ranking, resolved) ==
  [query |-> query,
   ranking |-> ranking,
   error |-> IF ranking.error # "none" THEN ranking.error ELSE resolved.error,
   urls |-> IF ranking.error # "none" THEN <<>> ELSE resolved.urls]

\* query_index after calculate_cosine_similarity (basic_query.py:35-36).
Resolve(query, ranking, bk) ==
  Answer(query, ranking, UrlsOf(get_urls(bk, ranking.top_docs)))

\* BasicQuery.query_index (basic_query.py:33-36).
query_index(s, total_docs, bk, query) ==
  Resolve(query, calculate_cosine_similarity(s, total_docs, query), bk)

\* ------------------------------------------------- concurrent bulk writes
\* Motor runs each bulk_write in a pool thread on a connection of its own, so
\* up to SemaphoreLimit bulk writes are executed by the server at the same
\* time.  The collection has no unique index on lemma (none is created in
\* index_constructor.py:26-37), so an upsert that found no row for its
\* lemma inserts one even if a concurrent upsert has inserted a row for the
\* same lemma in between: the collection then holds two rows for the lemma.

\* The lemmas among the first n operations of updates whose upsert may have
\* missed the row: no row when the write was submitted (absent), a row now.
Racing(s, updates, n, absent) ==
  {updates[k].lemma : k \in 1..n} \cap absent \cap DOMAIN s

\* The first n operations of updates that reach the first row of their lemma
\* (or create it): all but those whose lemma is in dup.
Reaching(updates, n, dup) ==
  LET reaches(u) == u.lemma \notin dup
  IN SelectSeq(SubSeq(updates, 1, n), reaches)

\* The rows the upserts of the lemmas in dup insert beside the first row.
Inserted(updates, n, dup) ==
  {updates[k] : k \in {j \in 1..n : updates[j].lemma \in dup}}

\* The collection after the first n operations of updates, those of the
\* lemmas in dup having inserted a second row.
Landed(s, updates, n, dup) ==
  ApplyUpdates(s, Reaching(updates, n, dup), Len(Reaching(updates, n, dup)))

\* The lemmas of updates that have no row in s.
Absent(s, updates) ==
  {updates[k].lemma : k \in 1..Len(updates)} \ DOMAIN s

\* ----------------------------------------- the collection at program start
\* Bound: the number of documents of an earlier build that contain "fox".
MaxStoreDocs == 25

\* The documents of an earlier build.
StoredDoc(i) ==
  CASE i % 4 = 1 -> << [name |-> "title", text |-> <<"Fox">>],
                      [name |-> "p", text |-> <<"fox", "jumps">>] >>
    [] i % 4 = 2 -> << [name |-> "h1", text |-> <<"foxes">>] >>
    [] i % 4 = 3 -> << [name |-> "p", text |-> <<"fox", "dogs", "the">>] >>
    [] OTHER     -> << [name |-> "h3", text |-> <<"Fox">>],
                      [name |-> "p", text |-> <<"a", "fox", "jumps", "sleeps">>] >>

\* A document of an earlier build without "fox".
OtherDoc == << [name |-> "p", text |-> <<"dogs", "sleeps">>] >>

\* What the loop of calculate_tf_idf computes for the rows of a collection
\* (index_constructor.py:112-129): tf_idf = tf * log(total_docs / df), in
\* thousandths.
backfilled(s) ==
  LET total_docs == Cardinality(distinct_locations(s))
  IN [l \in DOMAIN s |->
        LET df == Len(s[l])
            idf == IF df > 0 THEN Log(total_docs, df) ELSE 0
        IN [k \in 1..df |->
              [location |-> s[l][k].location, tf |-> s[l][k].tf,
               html_weight |-> s[l][k].html_weight,
               tf_idf |-> (s[l][k].tf * idf) \div 1000]]]

\* The documents of an earlier build: n with "fox", and one more without.
EarlierDoc(i) == IF i > MaxStoreDocs THEN OtherDoc ELSE StoredDoc(i)

\* The collection after the batched writes of the earlier documents in docs
\* have landed whole, in ascending order of document id.
StoreOf(docs) ==
  LET ups(i) == Updates(process_document(EarlierDoc(i)), i)
      has(i, l) == \E k \in 1..Len(ups(i)) : ups(i)[k].lemma = l
      entry(i, l) == ups(i)[CHOOSE k \in 1..Len(ups(i)) : ups(i)[k].lemma = l].doc_entry
      lemmas == UNION {{ups(i)[k].lemma : k \in 1..Len(ups(i))} : i \in docs}
  IN [l \in lemmas |->
        LET with == {i \in docs : has(i, l)}
        IN [k \in 1..Cardinality(with) |->
              entry(CHOOSE i \in with : Cardinality({j \in with : j < i}) = k - 1, l)]]

\* The collections the program may find: n documents with "fox", with or
\* without one more document, with or without tf_idf.
InitStores ==
  LET plain == {StoreOf((1..n) \cup other) :
                  n \in 0..MaxStoreDocs, other \in {{}, {MaxStoreDocs + 1}}}
  IN plain \cup {backfilled(s) : s \in plain}

\* bookkeeping.json as BasicQuery finds it: missing, not JSON, or a mapping
\* from document ids to urls, complete or not.
Url(i) == [protocol |-> IF i % 3 = 0 THEN "https://"
                        ELSE IF i % 3 = 1 THEN "http://" ELSE "",
           rest |-> i]
InitBookkeeping ==
  { [kind |-> "missing", data |-> <<>>],
    [kind |-> "corrupt", data |-> <<>>],
    [kind |-> "ok", data |-> [i \in 1..(MaxStoreDocs + 1) |-> Url(i)]],
    [kind |-> "ok", data |-> [i \in 1..2 |-> Url(i)]] }

\* The queries the GUI posts, as word sequences.
Queries ==
  { <<>>, <<"fox">>, <<"The">>, <<"dogs">>, <<"Fox", "jumps">>,
    <<"foxes", "42", "fox">>, <<"sleeps">>, <<"42">>, <<"jumps", "an">> }

\* ------------------------------------------------------------------ state
VARIABLES
  pc,             \* where main.py / build_index stands
  store,          \* the inverted_index collection: per lemma, the docs of
                  \* the first row with that lemma (the row find_one and
                  \* UpdateOne select)
  extra,          \* the further rows of the collection: rows a racing
                  \* upsert inserted for a lemma that has a row, each
                  \* [lemma, doc_entry] with its one posting (none in the
                  \* collections Spec starts from)
  missing,        \* per manifest entry: the lemmas of its bulk_write that
                  \* had no row when the write was submitted
  store0,         \* the collection as it was when the program started
  num_documents,  \* self.num_documents
  task,           \* per manifest entry: the state of its process_dir task
  sem,            \* the value of the semaphore
  thread,         \* bulk_write calls still running in the thread pool with
                  \* no coroutine awaiting them
  bookkeeping,    \* bookkeeping.json as BasicQuery reads it
  total_docs,     \* BasicQuery.total_docs
  result          \* what the last query_index call gave

queryVars == <<bookkeeping, total_docs, result>>
vars == <<pc, store, extra, missing, store0, num_documents, task, sem, thread,
          bookkeeping, total_docs, result>>

NoResult == [query |-> <<>>, error |-> "no query"]

EmptyStore == [l \in {} |-> <<>>]

\* Task states: "pending" (created, not yet inside the semaphore), "writing"
\* (inside, awaiting bulk_write), and the ways process_dir ends.
Finished == {"ok", "timeout", "error", "empty"}

\* ------------------------------------------------------------ build_index
\* Semaphore.acquire() without waiting: the value is positive.
CanAcquire_unbounded(s) == TRUE
CanAcquire(s) == s > 0

\* Tasks start and are woken in the order gather() created them.
NextPending == IF \E i \in Manifest : task[i] = "pending"
               THEN {CHOOSE i \in Manifest :
                       /\ task[i] = "pending"
                       /\ \A j \in Manifest : task[j] = "pending" => i <= j}
               ELSE {}

\* The event loop still runs the tasks: build_index awaits gather(), or an
\* exception of one task is on its way up to build_index.
LoopRuns == pc \in {"gather", "unwinding"}

\* A process_dir that counted every document it was given.
process_dir_counts_all(i) ==
  /\ LoopRuns
  /\ i \in NextPending
  /\ CanAcquire(sem)
  /\ IF DocUpdates(i) = <<>>
     THEN /\ task' = [task EXCEPT ![i] = "empty"]
          /\ sem' = sem
          /\ num_documents' = num_documents + 1
     ELSE /\ task' = [task EXCEPT ![i] = "writing"]
          /\ sem' = sem - 1
          /\ num_documents' = num_documents
  /\ missing' = [missing EXCEPT ![i] = Absent(store, DocUpdates(i))]
  /\ UNCHANGED queryVars
  /\ UNCHANGED <<pc, store, extra, store0, thread>>

\* process_dir up to its first suspension (index_constructor.py:47-54,
\* 82-97): acquire the semaphore, parse, build the updates and submit
\* bulk_write; with no updates add_to_index returns and the slot is released
\* in the same step.
process_dir(i) ==
  /\ LoopRuns
  /\ i \in NextPending
  /\ CanAcquire(sem)
  /\ IF DocUpdates(i) = <<>>
     THEN /\ task' = [task EXCEPT ![i] = "empty"]
          /\ sem' = sem
     ELSE /\ task' = [task EXCEPT ![i] = "writing"]
          /\ sem' = sem - 1
  /\ missing' = [missing EXCEPT ![i] = Absent(store, DocUpdates(i))]
  /\ UNCHANGED queryVars
  /\ UNCHANGED <<pc, store, extra, store0, num_documents, thread>>

\* open() or BeautifulSoup raises inside `async with semaphore`
\* (index_constructor.py:48-51): the slot is released, the task ends with the
\* exception and gather() hands it to build_index, which has no handler.
process_dir_raises(i) ==
  /\ LoopRuns
  /\ i \in NextPending
  /\ CanAcquire(sem)
  /\ task' = [task EXCEPT ![i] = "raised"]
  /\ pc' = "unwinding"
  /\ UNCHANGED queryVars
  /\ UNCHANGED <<store, extra, missing, store0, num_documents, sem, thread>>

\* bulk_write returns within the timeout (index_constructor.py:97-98).
write_ok(i) ==
  /\ LoopRuns
  /\ task[i] = "writing"
  /\ \E dup \in SUBSET Racing(store, DocUpdates(i), Len(DocUpdates(i)), missing[i]) :
       /\ store' = Landed(store, DocUpdates(i), Len(DocUpdates(i)), dup)
       /\ extra' = extra \cup Inserted(DocUpdates(i), Len(DocUpdates(i)), dup)
  /\ missing' = [missing EXCEPT ![i] = {}]
  /\ num_documents' = num_documents + 1
  /\ task' = [task EXCEPT ![i] = "ok"]
  /\ sem' = sem + 1
  /\ UNCHANGED queryVars
  /\ UNCHANGED <<pc, store0, thread>>

\* A timeout that left the semaphore as it was.
write_timeout_keeps_slot(i) ==
  /\ LoopRuns
  /\ task[i] = "writing"
  /\ task' = [task EXCEPT ![i] = "timeout"]
  /\ thread' = thread \cup {i}
  /\ UNCHANGED queryVars
  /\ UNCHANGED <<pc, store, extra, missing, store0, num_documents, sem>>

\* wait_for gives up after 20 s (index_constructor.py:97,99-100).  It cancels
\* the Future it awaits; the PyMongo call goes on in its pool thread.
write_timeout(i) ==
  /\ LoopRuns
  /\ task[i] = "writing"
  /\ task' = [task EXCEPT ![i] = "timeout"]
  /\ sem' = sem + 1
  /\ thread' = thread \cup {i}
  /\ UNCHANGED queryVars
  /\ UNCHANGED <<pc, store, extra, missing, store0, num_documents>>

\* bulk_write raises BulkWriteError or another exception
\* (index_constructor.py:101-104).  The bulk is ordered: the n operations
\* before the failing one have been applied and stay; a lost connection can
\* raise after all of them were applied.
write_error(i) ==
  /\ LoopRuns
  /\ task[i] = "writing"
  /\ \E n \in 0..Len(DocUpdates(i)) :
       \E dup \in SUBSET Racing(store, DocUpdates(i), n, missing[i]) :
         /\ store' = Landed(store, DocUpdates(i), n, dup)
         /\ extra' = extra \cup Inserted(DocUpdates(i), n, dup)
  /\ missing' = [missing EXCEPT ![i] = {}]
  /\ task' = [task EXCEPT ![i] = "error"]
  /\ sem' = sem + 1
  /\ UNCHANGED queryVars
  /\ UNCHANGED <<pc, store0, num_documents, thread>>

\* A bulk_write nobody awaits any more ends in its thread: it has applied
\* n of its operations (none when it was cancelled before it started).
thread_ends(i) ==
  /\ i \in thread
  /\ \E n \in 0..Len(DocUpdates(i)) :
       \E dup \in SUBSET Racing(store, DocUpdates(i), n, missing[i]) :
         /\ store' = Landed(store, DocUpdates(i), n, dup)
         /\ extra' = extra \cup Inserted(DocUpdates(i), n, dup)
  /\ missing' = [missing EXCEPT ![i] = {}]
  /\ thread' = thread \ {i}
  /\ UNCHANGED queryVars
  /\ UNCHANGED <<pc, store0, num_documents, task, sem>>

\* gather() returns once every task has finished (index_constructor.py:58);
\* build_index goes on to calculate_tf_idf (index_constructor.py:59).
gather_returns ==
  /\ pc = "gather"
  /\ \A i \in Manifest : task[i] \in Finished
  /\ pc' = "phase2"
  /\ UNCHANGED queryVars
  /\ UNCHANGED <<store, extra, missing, store0, num_documents, task, sem, thread>>

\* The exception of a task reaches build_index, leaves it and
\* run_until_complete (main.py:25): the loop stops, the tasks never resume.
\* Writes already submitted go on in their threads.
build_index_raises ==
  /\ pc = "unwinding"
  /\ pc' = "raised"
  /\ thread' = thread \cup {i \in Manifest : task[i] = "writing"}
  /\ UNCHANGED queryVars
  /\ UNCHANGED <<store, extra, missing, store0, num_documents, task, sem>>

\* calculate_tf_idf (index_constructor.py:111-112): distinct() is submitted
\* and its Future handed to len(), which raises TypeError.  The loop at
\* lines 115-136 is not reached; the exception leaves build_index.
calculate_tf_idf ==
  /\ pc = "phase2"
  /\ pc' = "raised"
  /\ UNCHANGED queryVars
  /\ UNCHANGED <<store, extra, missing, store0, num_documents, task, sem, thread>>

\* The body of build_index as it runs once the guard is passed
\* (index_constructor.py:43-59), from its entry: the collection is empty, the
\* tasks are created and none has started.  Under Spec the guard never
\* passes (build_guard), so the body is specified on its own, from here.
InitBuild ==
  /\ pc = "gather"
  /\ store = EmptyStore
  /\ extra = {}
  /\ missing = [i \in Manifest |-> {}]
  /\ store0 = EmptyStore
  /\ num_documents = 0
  /\ task = [i \in Manifest |-> "pending"]
  /\ sem = SemaphoreLimit
  /\ thread = {}
  /\ bookkeeping = [kind |-> "missing", data |-> <<>>]
  /\ total_docs = 0
  /\ result = NoResult

NextBuild ==
  \/ \E i \in Manifest : process_dir(i)
  \/ \E i \in Manifest : process_dir_raises(i)
  \/ \E i \in Manifest : write_ok(i)
  \/ \E i \in Manifest : write_timeout(i)
  \/ \E i \in Manifest : write_error(i)
  \/ \E i \in Manifest : thread_ends(i)
  \/ gather_returns
  \/ build_index_raises
  \/ calculate_tf_idf

SpecBuild == InitBuild /\ [][NextBuild]_vars

\* ---------------------------------------------------------------- main.py
\* A Motor method called without await evaluates to its Future.
MotorCall(value) == [future |-> TRUE, value |-> value]

\* `x == 0` for x an int or a Future: a Future equals no int.
EqualsZero(x) == ~x.future /\ x.value = 0

\* The guard of build_index (index_constructor.py:42):
\* self.collection.count_documents({}) == 0, on the Motor collection, not awaited.
build_guard_always(s) == TRUE
build_guard(s) == EqualsZero(MotorCall(count_documents(s)))

\* loop.run_until_complete(index.build_index()) (main.py:25,
\* index_constructor.py:41-45): the guard, then either the body or the return.
build_index ==
  /\ pc = "start"
  /\ pc' = IF build_guard(store) THEN "gather" ELSE "returned"
  /\ UNCHANGED <<store, extra, missing, store0, num_documents, task, sem, thread>>
  /\ UNCHANGED queryVars

\* query = BasicQuery(corpus_path) (main.py:27, basic_query.py:11-18).
BasicQuery ==
  /\ pc = "returned"
  /\ total_docs' = Cardinality(distinct_locations(store))
  /\ pc' = "serving"
  /\ UNCHANGED <<store, extra, missing, store0, num_documents, task, sem, thread,
                 bookkeeping, result>>

\* A query engine that kept the urls of the previous answer.
search_stateful(query) ==
  /\ pc = "serving"
  /\ result' = IF result.error = "none"
               THEN [query_index(store, total_docs, bookkeeping, query)
                       EXCEPT !.urls = result.urls]
               ELSE query_index(store, total_docs, bookkeeping, query)
  /\ UNCHANGED <<pc, store, extra, missing, store0, num_documents, task, sem, thread,
                 bookkeeping, total_docs>>

\* A POST of the search form (GUI.py:10-14).
search(query) ==
  /\ pc = "serving"
  /\ result' = query_index(store, total_docs, bookkeeping, query)
  /\ UNCHANGED <<pc, store, extra, missing, store0, num_documents, task, sem, thread,
                 bookkeeping, total_docs>>

\* The program as main.py starts it, against whatever the collection holds.
Init ==
  /\ pc = "start"
  /\ store \in InitStores
  /\ extra = {}
  /\ missing = [i \in Manifest |-> {}]
  /\ store0 = store
  /\ num_documents = 0
  /\ task = [i \in Manifest |-> "pending"]
  /\ sem = SemaphoreLimit
  /\ thread = {}
  /\ bookkeeping \in InitBookkeeping
  /\ total_docs = 0
  /\ result = NoResult

Next ==
  \/ build_index
  \/ BasicQuery
  \/ \E query \in Queries : search(query)

Spec == Init /\ [][Next]_vars

\* ----------------------------------------------------------------- claims
\* Documents inside the limiter: process_dir has acquired the semaphore and
\* has not finished.
InFlight == {i \in Manifest : task[i] = "writing"}

\* Documents whose batched write the build gave up or saw fail.
WriteFailed == {i \in Manifest : task[i] \in {"timeout", "error"}}

\* Every posting of every row carries tf_idf.
AllBackfilled ==
  \A l \in DOMAIN store : \A k \in 1..Len(store[l]) : "tf_idf" \in DOMAIN store[l][k]

\* C1: during phase 1 at most 3 documents are inside the limiter (entered
\* process_dir, parse or batched write not yet finished), in every reachable
\* state of the build.
C1_AtMostThreeInFlight == Cardinality(InFlight) <= 3
C1_Witness == Cardinality(InFlight) = 3 /\ \E i \in Manifest : task[i] = "pending"

\* C2: phase 2 begins only after every phase-1 unit has finished, and no
\* phase-1 write can still land in the collection once phase 2 has begun.
C2_Phase2AfterEveryWrite ==
  pc = "phase2" => (\A i \in Manifest : task[i] \in Finished) /\ thread = {}

\* C3: when batched writes fail (and nothing else goes wrong) build_index
\* still processes every other document and carries out phase 2 instead of
\* failing, and at the end num_documents is the number of successful writes.
C3_BuildSurvivesWriteFailure ==
  (WriteFailed # {} /\ \A i \in Manifest : task[i] # "raised")
    => /\ pc # "raised"
       /\ num_documents = Cardinality({i \in Manifest : task[i] = "ok"})

\* C4: at the end of the build no row holds a posting of a document whose
\* batched write failed.
C4_FailedDocumentNoPostings ==
  (pc = "raised" /\ \A i \in Manifest : task[i] \in Finished)
    => \A i \in WriteFailed : i \notin distinct_locations(store)

\* C5: a document that cannot be read or parsed is skipped; build_index
\* does not fail because of it.
C5_ParseErrorContained ==
  (\E i \in Manifest : task[i] = "raised") => pc # "raised"

\* C6: build_index invoked on an empty collection dispatches every document
\* of the manifest before it returns.
C6_EmptyStoreIsBuilt ==
  (pc = "returned" /\ store0 = EmptyStore)
    => \A i \in Manifest : task[i] \in Finished

\* C7: build_index invoked on a collection that holds a row returns without
\* entering the body: no task starts, no write is issued, the collection and
\* the counter stay as they are.
C7_NonEmptyStoreNoWork ==
  [][(pc = "start" /\ count_documents(store) > 0)
       => /\ pc' = "returned"
          /\ store' = store
          /\ task' = task
          /\ thread' = thread
          /\ num_documents' = num_documents]_vars
C7_Witness ==
  pc = "returned" /\ count_documents(store0) > 0 /\ store = store0

\* C8: once build_index is past phase 2, every posting of every row carries
\* tf_idf.
C8_BuiltIsBackfilled ==
  (pc = "raised" /\ \A i \in Manifest : task[i] \in Finished) => AllBackfilled

\* C9: a query none of whose lemmas has a row is answered with the empty
\* list and no error.
C9_AbsentLemmasEmptyResult ==
  (/\ result.error # "no query"
   /\ \A k \in 1..Len(tokenize_query(result.query)) :
         tokenize_query(result.query)[k].lemma \notin DOMAIN store)
    => result.error = "none" /\ result.urls = <<>>

\* The documents with a posting under a lemma of the query.
Candidates(s, query) ==
  UNION {{s[l][k].location : k \in 1..Len(s[l])} :
           l \in {tokenize_query(query)[k].lemma :
                    k \in 1..Len(tokenize_query(query))} \cap DOMAIN s}

Min(a, b) == IF a < b THEN a ELSE b

\* What C10 says of a ranking that has been returned: min(20, candidates)
\* identifiers, in non-increasing order of score.
RankingCapped(s, r) ==
  /\ Len(r.ranking.top_docs) = Min(20, Cardinality(Candidates(s, r.query)))
  /\ \A i \in 1..Len(r.ranking.top_docs) :
        r.ranking.top_docs[i] = r.ranking.sorted_scores[i].doc_id
  /\ \A i \in 1..(Len(r.ranking.sorted_scores) - 1) :
        r.ranking.sorted_scores[i].score >= r.ranking.sorted_scores[i + 1].score

\* C10: for any collection and any query calculate_cosine_similarity returns
\* min(20, number of candidates) identifiers in non-increasing order of score.
C10_TopTwentySorted ==
  result.error # "no query"
    => result.ranking.error = "none" /\ RankingCapped(store, result)

\* The urls of the identifiers of docs that the mapping resolves, in the
\* order of docs, each with its protocol.
ResolvedUrls(bk, docs) ==
  IF bk.kind # "ok" THEN <<>>
  ELSE LET resolves(d) == d \in DOMAIN bk.data
           kept == SelectSeq(docs, resolves)
       IN [i \in 1..Len(kept) |-> format_url(bk.data[kept[i]])]

\* C11: when the ranking has been computed, query_index does not fail over
\* an identifier it cannot resolve (identifier not in the mapping, mapping
\* file missing or corrupt): it returns the urls of the resolvable
\* identifiers, in ranking order, and leaves the others out.
C11_UnresolvedOmitted ==
  (result.error # "no query" /\ result.ranking.error = "none")
    => /\ result.error = "none"
       /\ result.urls = ResolvedUrls(bookkeeping, result.ranking.top_docs)

\* The build has ended: every task has finished, build_index has been left
\* (through the TypeError of calculate_tf_idf, see C8) and no write is still
\* running in a thread.
BuildEnded ==
  /\ pc = "raised"
  /\ \A i \in Manifest : task[i] \in Finished
  /\ thread = {}

\* No two postings of the docs list have the same location.
OnePerDocument(docs) ==
  \A j, k \in 1..Len(docs) : docs[j].location = docs[k].location => j = k

\* C12: every postings list holds at most one entry per document: in no row
\* do two postings have the same location.  Holds in every state of the
\* build, so also when it has ended.
C12_OnePostingPerDocument ==
  \A l \in DOMAIN store : OnePerDocument(store[l])
C12_Witness ==
  /\ BuildEnded
  /\ \E l \in DOMAIN store : Len(store[l]) >= 2
  /\ \A i \in Manifest : task[i] \in {"ok", "empty"}

\* The lemmas of the corpus and the manifest documents that contain a lemma.
CorpusLemmas ==
  UNION {{DocUpdates(i)[k].lemma : k \in 1..Len(DocUpdates(i))} : i \in Manifest}
DocsWith(l) ==
  {i \in Manifest : \E k \in 1..Len(DocUpdates(i)) : DocUpdates(i)[k].lemma = l}

\* Every task has finished and every batched write succeeded.
EveryWriteSucceeded == \A i \in Manifest : task[i] \in {"ok", "empty"}

\* C13: once every batched write has succeeded, every term has a row and
\* the length of its postings list (what the program uses as the term's
\* document frequency) is the number of manifest documents with the term.
C13_DocumentFrequency ==
  EveryWriteSucceeded
    => \A l \in CorpusLemmas :
          l \in DOMAIN store /\ Len(store[l]) = Cardinality(DocsWith(l))

\* The identifiers a ranking returned.
Returned(r) == {r.ranking.top_docs[i] : i \in 1..Len(r.ranking.top_docs)}

\* C14: a query returns only documents with a posting under one of its
\* lemmas, each with a score above 0, and returns every such document when
\* there are fewer than 20 of them.
C14_ExactlyTheCandidates ==
  result.error # "no query"
    => /\ Returned(result) \subseteq Candidates(store, result.query)
       /\ \A i \in 1..Len(result.ranking.top_docs) :
             result.ranking.sorted_scores[i].score > 0
       /\ Cardinality(Candidates(store, result.query)) < 20
            => Candidates(store, result.query) \subseteq Returned(result)

TokenizesAs(query, kept) ==
  LET lemmas == tokenize_query(query)
      stem(k) == Stem(Lower(query[k]))
  IN /\ {lemmas[j].lemma : j \in 1..Len(lemmas)} = {stem(k) : k \in kept}
     /\ \A j \in 1..Len(lemmas) :
           lemmas[j].count = Cardinality({k \in kept : stem(k) = lemmas[j].lemma})
     /\ \A i, j \in 1..Len(lemmas) : lemmas[i].lemma = lemmas[j].lemma => i = j

\* C16 as stated: tokenize_query stems and keeps every token of the query;
\* it applies none of the filters of the indexing path (stop word, shorter
\* than 3 characters, purely numeric).
C16_KeepsEveryToken ==
  result.error # "no query"
    => TokenizesAs(result.query, 1..Len(result.query))

\* C16 amended: tokenize_query discards the purely numeric tokens and stems
\* and keeps every other token; it applies neither the stop-word filter nor
\* the minimum-length filter of the indexing path.
C16_KeepsAllButNumeric ==
  result.error # "no query"
    => TokenizesAs(result.query,
                   {k \in 1..Len(result.query) : ~IsNumeric(Lower(result.query[k]))})
C16_Witness ==
  /\ result.error # "no query"
  /\ result.query = <<"foxes", "42", "fox">>
  /\ tokenize_query(result.query) = <<[lemma |-> "fox", count |-> 2]>>

\* The posting add_to_index builds for document i under lemma l.
PostingOf(i, l) ==
  DocUpdates(i)[CHOOSE k \in 1..Len(DocUpdates(i)) : DocUpdates(i)[k].lemma = l].doc_entry

\* C17: when every batched write has succeeded, the rows of the collection
\* are the same for every order in which the writes completed: one row per
\* term, holding the postings of exactly the documents with that term (in
\* whatever order inside the list).
C17_OrderIndependent ==
  EveryWriteSucceeded
    => /\ DOMAIN store = CorpusLemmas
       /\ extra = {}
       /\ \A l \in CorpusLemmas :
             {store[l][k] : k \in 1..Len(store[l])} =
             {PostingOf(i, l) : i \in DocsWith(l)}

\* Every lemma of the query has a row.
LemmasPresent(s, query) ==
  \A k \in 1..Len(tokenize_query(query)) :
     tokenize_query(query)[k].lemma \in DOMAIN s

\* C18: against a collection whose postings all carry tf_idf, the scan of
\* the postings lists takes the stored values and succeeds for every query
\* whose lemmas have rows, also for a lemma that occurs in every document.
C18_StoredTfIdfUsed ==
  (/\ result.error # "no query"
   /\ AllBackfilled
   /\ LemmasPresent(store, result.query))
    => result.ranking.error = "none"

\* The slots of the semaphore are free or held by a document in flight.
SlotsAccounted == sem = SemaphoreLimit - Cardinality(InFlight)

\* Every unit has ended, in one of the ways process_dir ends.
EveryUnitEnded == \A i \in Manifest : task[i] \in Finished \cup {"raised"}

\* C19: a process_dir unit gives its slot back however it ends (write
\* success, timeout, write error, exception while parsing): the slots not
\* held by a unit in flight are free, so while the event loop runs a waiting
\* document finds a free slot or a unit in flight that will free one, and
\* all 3 slots are free once every unit has ended.
C19_SlotsReleased ==
  /\ SlotsAccounted
  /\ (LoopRuns /\ \E i \in Manifest : task[i] = "pending")
       => CanAcquire(sem) \/ InFlight # {}
  /\ EveryUnitEnded => sem = SemaphoreLimit
C19_Witness ==
  /\ EveryUnitEnded
  /\ sem = SemaphoreLimit
  /\ \A outcome \in {"ok", "timeout", "error", "raised"} :
        \E i \in Manifest : task[i] = outcome

\* The manifest documents that yield no lemma after filtering.
NoLemmas == {i \in Manifest : DocUpdates(i) = <<>>}

\* C20: a document without lemmas issues no bulk_write (it is never in
\* flight, no write of it runs in a thread, no row names it) and is not
\* counted; num_documents is the number of successful writes, so once every
\* write has succeeded it is the number of documents with a lemma.
C20_EmptyDocumentNotCounted ==
  /\ \A i \in NoLemmas :
        /\ task[i] \in {"pending", "empty", "raised"}
        /\ i \notin thread
        /\ i \notin distinct_locations(store)
  /\ num_documents = Cardinality({i \in Manifest : task[i] = "ok"})
  /\ EveryWriteSucceeded => num_documents = Cardinality(Manifest \ NoLemmas)
C20_Witness ==
  /\ BuildEnded
  /\ EveryWriteSucceeded
  /\ \E i \in Manifest : task[i] = "empty"
  /\ num_documents = Cardinality(Manifest \ NoLemmas)
  /\ num_documents < MaxDocs

=============================================================================
